---- MODULE Spec2Model ----
(***************************************************************************)
(* Model of the ISP IPC channel tracer (proxyclient/hv/trace_isp.py):      *)
(* channel-table discovery on GPR0 reads, the per-channel read/write       *)
(* cursors with content dedup (ISPChannel.get_message), the command        *)
(* decoding of each new message and the two event handlers that poll the   *)
(* channels (interrupt-pending read, doorbell-ring write).                 *)
(***************************************************************************)
EXTENDS Integers, Sequences, FiniteSets, TLC

VARIABLES
    attrs,              \* names of the tracer attributes that have been assigned
    number_of_channels, \* ISPTracer.number_of_channels (meaningful once in attrs)
    channel_list,       \* ISPTracer.channel_list (meaningful once in attrs)
    ch_tbl,             \* records of the channel table read by the last discovery
    BUFFER_ADDRESS,     \* ISPTerminalCommand.BUFFER_ADDRESS (class attribute)
    mem,                \* device memory backing the channel rings, per ring IOVA
    evt,                \* the last event delivered: kind, value, device write place
    scanned,            \* channel_names / scanned_channels of the last handler run
    polls,              \* the get_message calls that returned in the last handler run
    emitted,            \* the commands the last handler run dumped to the log
    fault,              \* TRUE when the last handler run ended by raising
    seen,               \* per channel and direction: slots emitted since the ring
                        \* of that channel was last written by the device
    events,             \* number of events delivered so far
    allowed,            \* ISPTracer.ALLOWED_CHANNELS as configured
    cached,             \* per unit of MDARTTracer.regs: its DART holds cached
                        \* translations
    mdart               \* the last call of MDARTTracer: arguments, the units whose
                        \* cache it invalidated, the units it read, its outcome

vars == <<attrs, number_of_channels, channel_list, ch_tbl, BUFFER_ADDRESS, mem,
          evt, scanned, polls, emitted, fault, seen, events, allowed,
          cached, mdart>>

---------------------------------------------------------------------------
(* Bounds of the model *)

\* the number of events (register reads and writes, device writes) of a run
MaxEvents == 5

---------------------------------------------------------------------------
(* Program constants *)

\* r_ISP_GPR0: "ISP_GPR0 = ACK"
ACK_VALUE == 134488070
\* r_ISP_GPR0: values below this are channel counts
CHANNEL_COUNT_LIMIT == 64
\* r_ISP_GPR0: self.channel_table_entry_length = 0x100
CHANNEL_TABLE_ENTRY_LENGTH == 256
\* r_ISP_GPR0: ISPChannel(..., 0x40, ch_addr)
ENTRY_SIZE == 64
\* ISPTerminalCommand.MAX_BUFFER_SIZE = 0x80
MAX_BUFFER_SIZE == 128
\* struct.unpack('<32s...'): width of the name field of a table record
NAME_FIELD_LENGTH == 32
\* ISPIOCommand / ISPT2HBufferCommand: read_iova(self.iova, 0x8)
IO_READ_LENGTH == 8
\* MessageLookupType
LAST_READ == 0
LAST_WRITE == 1
\* ISPTracer.ALLOWED_CHANNELS = None; an allow-list is None or a list of names
ALLOWED_CHANNELS == [none |-> TRUE, names |-> <<>>]

\* Python's None, for the attributes that hold bytes (a ring entry is a
\* non-empty tuple) and for those that hold an address (addresses are >= 0)
None == <<>>
NoAddress == -1

---------------------------------------------------------------------------
(* The environment: IOVA space seen through the DART *)

\* ASCII codes of the channel names the decoder knows
NAME_TERMINAL == <<84, 69, 82, 77, 73, 78, 65, 76>>
NAME_IO == <<73, 79>>
NAME_SHAREDMALLOC == <<83, 72, 65, 82, 69, 68, 77, 65, 76, 76, 79, 67>>
NAME_BUF_T2H == <<66, 85, 70, 95, 84, 50, 72>>

\* the IOVAs the device uses: its channel table, two mapped rings, a ring
\* base that no page table maps, and the terminal text buffer
IOVA == [table |-> 4096, ring_a |-> 8192, ring_b |-> 12288,
         ring_unmapped |-> 16384, text |-> 20480]
TABLE_IOVA == IOVA.table
RING_A == IOVA.ring_a
RING_B == IOVA.ring_b
RING_UNMAPPED == IOVA.ring_unmapped
TEXT_BUFFER == IOVA.text

\* the IOVAs at which a channel table is mapped
MappedTables == {TABLE_IOVA}
\* the IOVAs at which an indirect buffer (terminal text, IO opcode) is mapped:
\* the text buffer and the chunk right below it
MappedBuffers == {TEXT_BUFFER - MAX_BUFFER_SIZE, TEXT_BUFFER}
\* number of 64-byte entries mapped at each ring IOVA
RingSlots == [a \in {RING_A, RING_B} |-> IF a = RING_A THEN 2 ELSE 1]

Pad(s) == s \o [i \in 1..(NAME_FIELD_LENGTH - Len(s)) |-> 0]

\* the 256-byte records the device may hold in its channel table, by field:
\* name (32 bytes, NUL padded), type, source, size (entry count), address;
\* the last one is a record of zero bytes
TableRecords ==
    << [name |-> Pad(NAME_TERMINAL), type |-> 0, source |-> 0, size |-> 2, addr |-> RING_A],
      [name |-> Pad(NAME_IO),       type |-> 1, source |-> 1, size |-> 1, addr |-> RING_B],
      [name |-> Pad(NAME_BUF_T2H),  type |-> 1, source |-> 0, size |-> 1, addr |-> RING_UNMAPPED],
      [name |-> Pad(<<>>),          type |-> 0, source |-> 0, size |-> 0, addr |-> 0],
      [name |-> Pad(NAME_TERMINAL), type |-> 0, source |-> 0, size |-> 4, addr |-> RING_A],
      [name |-> Pad(NAME_TERMINAL), type |-> 0, source |-> 1, size |-> 4, addr |-> RING_A] >>

\* the records of a table of zero bytes but for one TERMINAL record of four
\* entries; the one of zero bytes
TerminalRecords == {r \in DOMAIN TableRecords :
                      /\ TableRecords[r].name = Pad(NAME_TERMINAL)
                      /\ TableRecords[r].size = 4}
ZeroRecord == CHOOSE r \in DOMAIN TableRecords : TableRecords[r].name = Pad(<<>>)

\* the ring entries the device writes: <<value, arg0, arg1>> of the leading
\* 24 bytes (the 40 reserved bytes are zero)
RingEntries == { <<0, 16, 0>>, <<TEXT_BUFFER + 1, 16, 0>> }

\* the values read from the GPR0, interrupt-pending and doorbell registers
GPRValues == (0..2) \cup {CHANNEL_COUNT_LIMIT, TABLE_IOVA, ACK_VALUE}
IRQValues == 0..2
DoorbellValues == 1..3

---------------------------------------------------------------------------
(* The DART translator (m1n1.hw.dart.DART.ioread), as the tracer uses it *)

\* a read of size bytes at a ring base faults unless the whole range is mapped;
\* a read of size 0 returns b"" without translating anything
ring_read_faults(address, size) ==
    /\ size # 0
    /\ \/ address \notin DOMAIN mem
       \/ size > Len(mem[address]) * ENTRY_SIZE

\* the entries a successful read of size bytes at a ring base returns
ring_read(address, size) ==
    IF size = 0 THEN <<>> ELSE SubSeq(mem[address], 1, size \div ENTRY_SIZE)

\* a follow-up read of an indirect buffer (ISPCommand.read_iova)
read_iova_faults(address, length) ==
    /\ length # 0
    /\ address \notin MappedBuffers

\* a read of the channel table
table_read_faults(address, size) ==
    /\ size # 0
    /\ address \notin MappedTables

---------------------------------------------------------------------------
(* MDARTTracer (proxyclient/m1n1/trace/multidart.py): the units *)

\* MDARTTracer.NAMES; MDARTTracer.start builds self.regs in this order
NAMES == <<"dart0", "dart1", "dart2", "smmu0", "smmu1", "dapf0">>

\* ioread(..., idx=None)
NoIndex == -1

\* the register block of each unit: unit u at UNIT.base + (u - 1) * UNIT.stride;
\* the offsets of the registers DARTRegs knows, STREAM_COMMAND among them
UNIT == [base |-> 32768, stride |-> 16384, STREAM_COMMAND |-> 32, STREAM_SELECT |-> 52]
UnitBase(u) == UNIT.base + (u - 1) * UNIT.stride
RegOffsets == {UNIT.STREAM_COMMAND, UNIT.STREAM_SELECT}

\* regmap.lookup_addr(addr) of unit u: the name of the register at addr, or None
lookup_addr(u, addr) ==
    IF addr - UnitBase(u) = UNIT.STREAM_COMMAND THEN "STREAM_COMMAND"
    ELSE IF addr - UnitBase(u) = UNIT.STREAM_SELECT THEN "STREAM_SELECT"
    ELSE "None"

\* the IOVAs a caller reads through the units: one that every unit maps, one
\* that dart1 does not map
READ_BASES == [everywhere |-> 4096, not_dart1 |-> 8192]
unit_read_faults(u, base) == base = READ_BASES.not_dart1 /\ NAMES[u] = "dart1"

\* a call of MDARTTracer and what it did
MDARTCall(op, addr, flag, base, size, idx, invalidated, queried, ret) ==
    [ op |-> op, addr |-> addr, flag |-> flag, base |-> base, size |-> size,
      idx |-> idx, invalidated |-> invalidated, queried |-> queried, ret |-> ret ]

\* MDARTTracer.start: six units, their DARTs freshly built
MDARTStart ==
    /\ cached = [u \in DOMAIN NAMES |-> FALSE]
    /\ mdart = MDARTCall("start", 0, FALSE, 0, 0, NoIndex, {}, <<>>, "None")

---------------------------------------------------------------------------
(* ISPChannel *)

RECURSIVE rstrip(_)
\* str.rstrip('\x00')
rstrip(s) ==
    IF Len(s) > 0 /\ s[Len(s)] = 0 THEN rstrip(SubSeq(s, 1, Len(s) - 1)) ELSE s

\* ISPChannel.__init__
ISPChannel(name, type, source, number_of_entries, entry_size, address) ==
    [ name              |-> rstrip(name),
      source            |-> source,
      type              |-> type,
      number_of_entries |-> number_of_entries,
      entry_size        |-> entry_size,
      size              |-> number_of_entries * entry_size,
      address           |-> address,
      doorbell          |-> 2 ^ source,
      read_entry_index  |-> 0,
      write_entry_index |-> 0,
      last_read_entry   |-> None,
      last_write_entry  |-> None ]

\* the cursor and the last-seen buffer of one direction of a channel
entry_index_of(ch, lookup_type) ==
    IF lookup_type = LAST_WRITE THEN ch.write_entry_index ELSE ch.read_entry_index

last_entry_of(ch, lookup_type) ==
    IF lookup_type = LAST_WRITE THEN ch.last_write_entry ELSE ch.last_read_entry

\* is_new_entry without the comparison with the last-seen buffer: the slip
\* that C2 and C10 must detect
is_new_entry_always(last_entry, entry_data) == TRUE

\* the comparison of the candidate entry with the last-seen buffer
is_new_entry(last_entry, entry_data) ==
    last_entry = None \/ last_entry # entry_data

\* wrap_index wrapping one position late (> for >=): the slip that C1 and C3
\* must detect
wrap_index_late(entry_index, number_of_entries) ==
    IF entry_index > number_of_entries THEN 0 ELSE entry_index

\* the wraparound of the cursor
wrap_index(entry_index, number_of_entries) ==
    IF entry_index >= number_of_entries THEN 0 ELSE entry_index

\* ISPChannel.get_message on the ring bytes channel_data: the channel after
\* the call and the message returned, <<index, data>>, or None
get_message(ch, lookup_type, channel_data) ==
    LET entry_index == entry_index_of(ch, lookup_type)
        \* range(0, size, entry_size) visits message_index 0 .. Len(channel_data)-1
        found == entry_index < Len(channel_data)
        entry_data == channel_data[entry_index + 1]
        fresh == found /\ is_new_entry(last_entry_of(ch, lookup_type), entry_data)
        next_index == wrap_index(IF fresh THEN entry_index + 1 ELSE entry_index,
                                 ch.number_of_entries)
        ch1 == IF ~fresh THEN ch
               ELSE IF lookup_type = LAST_READ
                    THEN [ch EXCEPT !.last_read_entry = entry_data]
                    ELSE [ch EXCEPT !.last_write_entry = entry_data]
        ch2 == IF lookup_type = LAST_READ
               THEN [ch1 EXCEPT !.read_entry_index = next_index]
               ELSE [ch1 EXCEPT !.write_entry_index = next_index]
    IN [ channel |-> ch2,
         message |-> IF fresh THEN <<entry_index, entry_data>> ELSE None ]

---------------------------------------------------------------------------
(* The command decoder *)

\* ISPCommand.__init__: value & 0xFFFFFFFFFFFFFFFC (the model's raw values
\* are small non-negative numbers)
masked_value(raw_value) == raw_value - (raw_value % 4)

\* a decoded command; read_at is the IOVA of its follow-up read, if any
Command(kind, message, read_at) ==
    [ kind      |-> kind,
      index     |-> message[1],
      raw_value |-> message[2][1],
      value     |-> masked_value(message[2][1]),
      arg0      |-> message[2][2],
      arg1      |-> message[2][3],
      read_at   |-> read_at ]

\* set_address that never stores the address of the message: the slip that
\* C11 must detect
set_address_never(buffer_address, address) == buffer_address

\* ISPTerminalCommand.set_address
set_address(buffer_address, address) ==
    IF address # 0 THEN address ELSE buffer_address

\* move_cursor advancing by the size of a ring entry (0x40 for 0x80): the slip
\* that C18 must detect
move_cursor_by_entry(buffer_address) ==
    IF buffer_address # NoAddress /\ buffer_address # 0
    THEN buffer_address + ENTRY_SIZE
    ELSE buffer_address

\* ISPTerminalCommand.move_cursor
move_cursor(buffer_address) ==
    IF buffer_address # NoAddress /\ buffer_address # 0
    THEN buffer_address + MAX_BUFFER_SIZE
    ELSE buffer_address

\* ISPTerminalCommand.__init__: a read at BUFFER_ADDRESS = None raises too
ISPTerminalCommand(message, buffer_address) ==
    LET address == set_address(buffer_address, masked_value(message[2][1]))
        arg0 == message[2][2]
        raises == \/ read_iova_faults(address, arg0)
                  \/ arg0 # 0 /\ address = NoAddress
    IN [ fault          |-> raises,
         command        |-> Command("Terminal", message, address),
         BUFFER_ADDRESS |-> IF raises THEN address ELSE move_cursor(address) ]

\* ISPIOCommand.__init__ and ISPT2HBufferCommand.__init__
ISPIndirectCommand(kind, message, buffer_address) ==
    LET iova == masked_value(message[2][1])
    IN [ fault          |-> iova # 0 /\ read_iova_faults(iova, IO_READ_LENGTH),
         command        |-> Command(kind, message, IF iova # 0 THEN iova ELSE NoAddress),
         BUFFER_ADDRESS |-> buffer_address ]

\* ISPSharedMallocCommand.__init__ and ISPCommand.__init__: no follow-up read
ISPPlainCommand(kind, message, buffer_address) ==
    [ fault          |-> FALSE,
      command        |-> Command(kind, message, NoAddress),
      BUFFER_ADDRESS |-> buffer_address ]

\* ISPChannelMessage.get_command: the variant is chosen by the channel name
get_command(name, message, buffer_address) ==
    IF name = NAME_TERMINAL THEN ISPTerminalCommand(message, buffer_address)
    ELSE IF name = NAME_IO THEN ISPIndirectCommand("IO", message, buffer_address)
    ELSE IF name = NAME_SHAREDMALLOC
         THEN ISPPlainCommand("SharedMalloc", message, buffer_address)
    ELSE IF name = NAME_BUF_T2H
         THEN ISPIndirectCommand("T2HBuffer", message, buffer_address)
    ELSE ISPPlainCommand("Generic", message, buffer_address)

---------------------------------------------------------------------------
(* Polling the channels *)

\* the state a handler run threads through its loop over channel_list
HandlerState(list, buffer_address) ==
    [ channel_list   |-> list,
      BUFFER_ADDRESS |-> buffer_address,
      scanned        |-> <<>>,
      polls          |-> <<>>,
      cmds           |-> <<>>,
      fault          |-> FALSE ]

\* ring_read_raises with the cursor of the direction stored, one position on,
\* before the ring is read: the slip that C23 must detect
ring_read_raises_late(st, i, lookup_type) ==
    IF lookup_type = LAST_READ
    THEN [st EXCEPT !.fault = TRUE, !.channel_list[i].read_entry_index = @ + 1]
    ELSE [st EXCEPT !.fault = TRUE, !.channel_list[i].write_entry_index = @ + 1]

\* get_message when dart.ioread raises: the read is the first thing that
\* touches the channel, so the run ends with the channel as it was
ring_read_raises(st, i, lookup_type) == [st EXCEPT !.fault = TRUE]

\* ISPChannel.get_commands for channel i of the list, inside a handler run:
\* the ring read, the dedup step and the decoding, any of which may raise
get_commands(st, i, lookup_type) ==
    LET ch == st.channel_list[i]
    IN IF ring_read_faults(ch.address, ch.size)
       THEN ring_read_raises(st, i, lookup_type)
       ELSE
         LET r == get_message(ch, lookup_type, ring_read(ch.address, ch.size))
             st1 == [st EXCEPT !.channel_list[i] = r.channel,
                               !.polls = Append(@, [channel |-> i,
                                                    lookup_type |-> lookup_type,
                                                    message |-> r.message])]
         IN IF r.message = None
            THEN st1
            ELSE
              LET c == get_command(ch.name, r.message, st.BUFFER_ADDRESS)
                  st2 == [st1 EXCEPT !.BUFFER_ADDRESS = c.BUFFER_ADDRESS]
              IN IF c.fault
                 THEN [st2 EXCEPT !.fault = TRUE]
                 ELSE [st2 EXCEPT !.cmds =
                          Append(@, [channel |-> i, command |-> c.command])]

\* doorbell_matches as a bit test instead of the comparison: the change that
\* C6 must detect
doorbell_matches_bit(ch, doorbell_value) == (doorbell_value \div ch.doorbell) % 2 = 1

\* get_last_write_command: channel.doorbell == doorbell_value
doorbell_matches(ch, doorbell_value) == ch.doorbell = doorbell_value

\* get_last_read_command: (pending_irq >> (channel.type & 1)) != 0
irq_matches(ch, pending_irq) == (pending_irq \div (2 ^ (ch.type % 2))) # 0

channel_matches(ch, lookup_type, value) ==
    IF lookup_type = LAST_WRITE THEN doorbell_matches(ch, value)
    ELSE irq_matches(ch, value)

RECURSIVE scan_channels(_, _, _, _)
\* the loop "for channel in self.channel_list" of both handlers, from
\* channel i on; an exception ends the run where it is raised
scan_channels(st, i, lookup_type, value) ==
    IF i > Len(st.channel_list) \/ st.fault THEN st
    ELSE IF ~channel_matches(st.channel_list[i], lookup_type, value)
         THEN scan_channels(st, i + 1, lookup_type, value)
         ELSE scan_channels(
                get_commands([st EXCEPT !.scanned = Append(@, i)], i, lookup_type),
                i + 1, lookup_type, value)

\* the slots a handler run emitted, added to those seen for each channel
note_seen(old, run_polls) ==
    [i \in DOMAIN old |->
        [d \in {LAST_READ, LAST_WRITE} |->
            old[i][d] \cup { run_polls[k].message[1] :
                             k \in { j \in DOMAIN run_polls :
                                       /\ run_polls[j].channel = i
                                       /\ run_polls[j].lookup_type = d
                                       /\ run_polls[j].message # None } }]]

\* get_last_write_command / get_last_read_command
poll_channels(lookup_type, value) ==
    IF "channel_list" \notin attrs
    THEN \* AttributeError: the attribute is first assigned by discovery
         /\ fault' = TRUE
         /\ scanned' = <<>> /\ polls' = <<>> /\ emitted' = <<>>
         /\ UNCHANGED <<channel_list, BUFFER_ADDRESS, seen>>
    ELSE LET st == scan_channels(HandlerState(channel_list, BUFFER_ADDRESS),
                                 1, lookup_type, value)
         IN /\ channel_list' = st.channel_list
            /\ BUFFER_ADDRESS' = st.BUFFER_ADDRESS
            /\ scanned' = st.scanned
            /\ polls' = st.polls
            /\ fault' = st.fault
            /\ emitted' = IF st.fault THEN <<>> ELSE st.cmds
            /\ seen' = note_seen(seen, st.polls)

---------------------------------------------------------------------------
(* The events *)

Event(kind, val, addr, slot) == [kind |-> kind, val |-> val, addr |-> addr, slot |-> slot]

\* one more event is delivered
Deliver ==
    /\ events < MaxEvents
    /\ events' = events + 1

\* the event of a handler that polls: addr and slot tell the ring slot the
\* device wrote right before it (addr 0: the event before was no device write)
PollEvent(kind, val) ==
    IF evt.kind = "devwrite" THEN Event(kind, val, evt.addr, evt.slot)
    ELSE Event(kind, val, 0, 0)

\* r_ISP_IRQ_INTERRUPT polling in the Write direction: the slip that C22 must
\* detect
r_ISP_IRQ_INTERRUPT_as_write(val) ==
    /\ Deliver
    /\ evt' = PollEvent("irq", val)
    /\ poll_channels(LAST_WRITE, val)
    /\ UNCHANGED <<attrs, number_of_channels, ch_tbl, mem, allowed, cached, mdart>>

\* ISPTracer.r_ISP_IRQ_INTERRUPT
r_ISP_IRQ_INTERRUPT(val) ==
    /\ Deliver
    /\ evt' = PollEvent("irq", val)
    /\ poll_channels(LAST_READ, val)
    /\ UNCHANGED <<attrs, number_of_channels, ch_tbl, mem, allowed, cached, mdart>>

\* ISPTracer.w_ISP_DOORBELL_RING0
w_ISP_DOORBELL_RING0(val) ==
    /\ Deliver
    /\ evt' = PollEvent("doorbell", val)
    /\ poll_channels(LAST_WRITE, val)
    /\ UNCHANGED <<attrs, number_of_channels, ch_tbl, mem, allowed, cached, mdart>>

\* the tables of n records the device may hold at the table IOVA, each record
\* named by its place in TableRecords
Tables(n) == [1..n -> DOMAIN TableRecords \ TerminalRecords]

\* struct.unpack('<32s32x2I2q168x', ...) and ISPChannel(...) for one record
parse_record(rec) ==
    ISPChannel(rec.name, rec.type, rec.source, rec.size, ENTRY_SIZE, rec.addr)

\* is_allowed letting every channel through: the slip that C16 must detect
is_allowed_always(ch) == TRUE

\* the allow-list filter of the discovery loop: "if self.ALLOWED_CHANNELS
\* and (ch_entry.name not in self.ALLOWED_CHANNELS): continue"; None and the
\* empty list are both false
is_allowed(ch) ==
    \/ allowed.none \/ allowed.names = <<>>
    \/ \E k \in DOMAIN allowed.names : allowed.names[k] = ch.name

RECURSIVE discover_prepending(_, _)
\* discover putting each parsed channel in front of the list: the slip that
\* C4 must detect
discover_prepending(tbl, i) ==
    IF i > Len(tbl) THEN <<>>
    ELSE discover_prepending(tbl, i + 1)
         \o <<ISPChannel(TableRecords[tbl[i]].name, TableRecords[tbl[i]].type,
                         TableRecords[tbl[i]].source, TableRecords[tbl[i]].size,
                         ENTRY_SIZE, TableRecords[tbl[i]].addr)>>

RECURSIVE discover(_, _)
\* the discovery loop over the records of the table, from record i on
discover(tbl, i) ==
    IF i > Len(tbl) THEN <<>>
    ELSE LET ch == parse_record(TableRecords[tbl[i]])
         IN IF is_allowed(ch) THEN <<ch>> \o discover(tbl, i + 1)
            ELSE discover(tbl, i + 1)

\* is_channel_count taking the threshold itself for a count (<= for <): the
\* slip that C15 must detect
is_channel_count_upto(value) == value <= CHANNEL_COUNT_LIMIT

\* r_ISP_GPR0: elif val.value < 64
is_channel_count(value) == value < CHANNEL_COUNT_LIMIT

\* reset_channel_list leaving the previous list in place: the slip that C14
\* must detect
reset_channel_list_late(list) == list

\* self.channel_list = [], before the table is read
reset_channel_list(list) == <<>>

\* ISPTracer.r_ISP_GPR0; tbl is what the device holds at the table IOVA
r_ISP_GPR0(val, tbl) ==
    /\ Deliver
    /\ evt' = Event("gpr", val, 0, 0)
    /\ scanned' = <<>> /\ polls' = <<>> /\ emitted' = <<>>
    /\ UNCHANGED <<BUFFER_ADDRESS, mem, allowed, cached, mdart>>
    /\ IF val = ACK_VALUE
       THEN /\ fault' = FALSE
            /\ UNCHANGED <<attrs, number_of_channels, channel_list, ch_tbl, seen>>
       ELSE IF is_channel_count(val)
       THEN /\ number_of_channels' = val
            /\ attrs' = attrs \cup {"number_of_channels", "channel_table_entry_length"}
            /\ fault' = FALSE
            /\ UNCHANGED <<channel_list, ch_tbl, seen>>
       ELSE IF val > 0
       THEN /\ attrs' = attrs \cup {"channel_table_iova", "channel_list"}
            /\ UNCHANGED number_of_channels
            /\ IF \/ "number_of_channels" \notin attrs
                  \/ table_read_faults(val, number_of_channels * CHANNEL_TABLE_ENTRY_LENGTH)
               THEN \* AttributeError, or the fault of the table read
                    /\ fault' = TRUE
                    /\ channel_list' = reset_channel_list(channel_list)
                    /\ ch_tbl' = <<>>
                    /\ seen' = <<>>
               ELSE /\ fault' = FALSE
                    /\ ch_tbl' = tbl
                    /\ channel_list' = discover(tbl, 1)
                    /\ seen' = [i \in DOMAIN channel_list' |->
                                  [d \in {LAST_READ, LAST_WRITE} |-> {}]]
       ELSE /\ fault' = FALSE
            /\ UNCHANGED <<attrs, number_of_channels, channel_list, ch_tbl, seen>>

\* the device writes entry e into slot k (counted from 0) of the ring at a
DeviceWrite(a, k, e) ==
    /\ Deliver
    /\ mem' = [mem EXCEPT ![a][k + 1] = e]
    /\ evt' = Event("devwrite", 0, a, k)
    /\ scanned' = <<>> /\ polls' = <<>> /\ emitted' = <<>> /\ fault' = FALSE
    /\ seen' = [i \in DOMAIN seen |->
                  IF channel_list[i].address = a
                  THEN [d \in {LAST_READ, LAST_WRITE} |-> {}]
                  ELSE seen[i]]
    /\ UNCHANGED <<attrs, number_of_channels, channel_list, ch_tbl, BUFFER_ADDRESS,
                   allowed, cached, mdart>>

Init ==
    /\ attrs = {}
    /\ number_of_channels = 0
    /\ channel_list = <<>>
    /\ ch_tbl = <<>>
    /\ BUFFER_ADDRESS = NoAddress
    \* the rings hold what the device left there: two different entries in
    \* the ring of two slots
    /\ mem = [a \in DOMAIN RingSlots |->
                [k \in 1..RingSlots[a] |-> IF k = 1 THEN <<0, 16, 0>>
                                            ELSE <<TEXT_BUFFER + 1, 16, 0>>]]
    /\ evt = Event("start", 0, 0, 0)
    /\ scanned = <<>> /\ polls = <<>> /\ emitted = <<>> /\ fault = FALSE
    /\ seen = <<>>
    /\ events = 0
    /\ allowed = ALLOWED_CHANNELS
    /\ MDARTStart

\* what a discovery at val reads: a table of number_of_channels records when
\* the read is issued and succeeds, nothing otherwise
TablesAt(val) ==
    IF /\ ~is_channel_count(val) /\ val # ACK_VALUE
       /\ "number_of_channels" \in attrs
       /\ ~table_read_faults(val, number_of_channels * CHANNEL_TABLE_ENTRY_LENGTH)
    THEN Tables(number_of_channels)
    ELSE {<<>>}

Next ==
    \/ \E val \in GPRValues : \E tbl \in TablesAt(val) : r_ISP_GPR0(val, tbl)
    \/ \E val \in IRQValues : r_ISP_IRQ_INTERRUPT(val)
    \/ \E val \in DoorbellValues : w_ISP_DOORBELL_RING0(val)
    \/ \E a \in DOMAIN RingSlots : \E k \in 0..(RingSlots[a] - 1) : \E e \in RingEntries :
          DeviceWrite(a, k, e)

Spec == Init /\ [][Next]_vars

---------------------------------------------------------------------------
(* Properties of the cursor / dedup engine *)

\* the last event ran a handler that polls
IsPollEvent(e) == e.kind \in {"irq", "doorbell"}

\* the ring entry that a poll of direction d on channel ch examines, as the
\* memory holds it; defined when SlotExists(ch, d)
SlotExists(ch, d) == entry_index_of(ch, d) < ch.number_of_entries
SlotEntry(ch, d) == mem[ch.address][entry_index_of(ch, d) + 1]

\* the number of polls of channel i in a handler run
PollCount(run_polls, i) ==
    Cardinality({k \in DOMAIN run_polls : run_polls[k].channel = i})

\* C1: a poll that finds the entry at the cursor different from the last-seen
\* buffer of its direction, or finds no last-seen buffer, returns one Message
\* with the bytes of that entry and the cursor index, stores the bytes as
\* last-seen and advances the cursor by one, wrapping to 0 after entry_count-1.
C1_NewEntryIsReturned ==
    [][\A k \in DOMAIN polls' :
         LET i == polls'[k].channel
             d == polls'[k].lookup_type
             ch == channel_list[i]
             after == channel_list'[i]
         IN (/\ SlotExists(ch, d)
             /\ \/ last_entry_of(ch, d) = None
                \/ last_entry_of(ch, d) # SlotEntry(ch, d))
            => /\ polls'[k].message = <<entry_index_of(ch, d), SlotEntry(ch, d)>>
               /\ PollCount(polls', i) = 1
               /\ last_entry_of(after, d) = SlotEntry(ch, d)
               /\ entry_index_of(after, d) =
                     (entry_index_of(ch, d) + 1) % ch.number_of_entries]_vars

\* a doorbell poll has emitted the entry of the last slot of a two-entry ring,
\* which differed from the last-seen buffer, and the write cursor is back at 0
C1_Witness ==
    /\ evt.kind = "doorbell"
    /\ \E k \in DOMAIN polls :
         LET ch == channel_list[polls[k].channel]
         IN /\ ch.number_of_entries = 2
            /\ polls[k].message = <<1, mem[ch.address][2]>>
            /\ ch.last_write_entry = mem[ch.address][2]
            /\ ch.last_write_entry # mem[ch.address][1]
            /\ ch.write_entry_index = 0

\* C2: a poll that finds the entry at the cursor identical to the last-seen
\* buffer of its direction returns no Message and leaves the cursor and the
\* last-seen buffer of that direction unchanged.
C2_SameEntryIsSkipped ==
    [][\A k \in DOMAIN polls' :
         LET i == polls'[k].channel
             d == polls'[k].lookup_type
             ch == channel_list[i]
             after == channel_list'[i]
         IN (/\ SlotExists(ch, d)
             /\ last_entry_of(ch, d) = SlotEntry(ch, d))
            => /\ polls'[k].message = None
               /\ entry_index_of(after, d) = entry_index_of(ch, d)
               /\ last_entry_of(after, d) = last_entry_of(ch, d)]_vars

\* an interrupt poll has found the entry at the read cursor identical to the
\* last-seen read buffer and has returned nothing
C2_Witness ==
    /\ evt.kind = "irq"
    /\ \E k \in DOMAIN polls :
         LET ch == channel_list[polls[k].channel]
         IN /\ polls[k].message = None
            /\ SlotExists(ch, LAST_READ)
            /\ ch.last_read_entry = SlotEntry(ch, LAST_READ)

\* C3 as stated: both cursors of every discovered channel lie in
\* [0, entry_count).
C3_CursorsInRange ==
    \A i \in DOMAIN channel_list :
        /\ channel_list[i].read_entry_index \in 0..(channel_list[i].number_of_entries - 1)
        /\ channel_list[i].write_entry_index \in 0..(channel_list[i].number_of_entries - 1)

\* C3 amended: both cursors of every discovered channel lie in
\* [0, entry_count) when entry_count >= 1, and are 0 when the table record
\* gives the channel no entry.
C3_CursorsInRangeOrZero ==
    \A i \in DOMAIN channel_list :
        LET ch == channel_list[i]
        IN IF ch.number_of_entries >= 1
           THEN /\ ch.read_entry_index \in 0..(ch.number_of_entries - 1)
                /\ ch.write_entry_index \in 0..(ch.number_of_entries - 1)
           ELSE ch.read_entry_index = 0 /\ ch.write_entry_index = 0

\* a channel of two entries whose read cursor is at the last slot and whose
\* write cursor has just wrapped to 0, beside a channel without entries
C3_Witness ==
    /\ evt.kind = "doorbell"
    /\ \E i, j \in DOMAIN channel_list :
         /\ channel_list[i].number_of_entries = 2
         /\ channel_list[i].read_entry_index = 1
         /\ channel_list[i].write_entry_index = 0
         /\ \E k \in DOMAIN polls : polls[k].channel = i /\ polls[k].message # None
                                    /\ polls[k].message[1] = 1
         /\ channel_list[j].number_of_entries = 0

---------------------------------------------------------------------------
(* Properties of the event router *)

\* the last event read the value val from GPR0
IsGPREvent(e) == e.kind = "gpr"

\* channel ch is the freshly constructed channel of table record rec: the
\* fields of the record, the name without its NUL padding, both cursors at 0
\* and no last-seen buffer
FreshChannelOf(ch, rec) ==
    /\ Pad(ch.name) = rec.name
    /\ (ch.name = <<>> \/ ch.name[Len(ch.name)] # 0)
    /\ ch.type = rec.type
    /\ ch.source = rec.source
    /\ ch.number_of_entries = rec.size
    /\ ch.entry_size = ENTRY_SIZE
    /\ ch.address = rec.addr
    /\ ch.read_entry_index = 0 /\ ch.write_entry_index = 0
    /\ ch.last_read_entry = None /\ ch.last_write_entry = None

\* the channel list holds one fresh channel per record of the table, in order
ListIsTable(list, tbl) ==
    /\ Len(list) = Len(tbl)
    /\ \A i \in DOMAIN tbl : FreshChannelOf(list[i], TableRecords[tbl[i]])

\* C4 as stated: once a channel count is stored, every GPR event with a value
\* >= 64 re-parses the table: the channel list then holds one fresh channel
\* per record of the table, in table order.
C4_EveryValueFrom64Reparses ==
    [][(/\ IsGPREvent(evt')
        /\ evt'.val >= CHANNEL_COUNT_LIMIT
        /\ "number_of_channels" \in attrs)
       => /\ "channel_list" \in attrs'
          /\ Len(ch_tbl') = number_of_channels
          /\ ListIsTable(channel_list', ch_tbl')]_vars

\* C4 amended: once a channel count is stored, every GPR event with a value
\* >= 64 other than the ACK value 0x8042006 discards the previous channel
\* list; when the table read succeeds the list then holds one fresh channel
\* per record of the table read, in table order, and when the table read
\* faults the list is empty. The ACK value changes nothing.
C4_ValueFrom64ButAckReparses ==
    [][(/\ IsGPREvent(evt')
        /\ evt'.val >= CHANNEL_COUNT_LIMIT
        /\ "number_of_channels" \in attrs)
       => IF evt'.val = ACK_VALUE
          THEN UNCHANGED <<attrs, number_of_channels, channel_list>>
          ELSE /\ "channel_list" \in attrs'
               /\ IF fault'
                  THEN channel_list' = <<>>
                  ELSE /\ Len(ch_tbl') = number_of_channels
                       /\ ListIsTable(channel_list', ch_tbl')]_vars

\* a table of two different records has been re-parsed after a channel of an
\* earlier list had delivered a terminal message
C4_Witness ==
    /\ IsGPREvent(evt) /\ evt.val = TABLE_IOVA /\ ~fault
    /\ BUFFER_ADDRESS # NoAddress
    /\ Len(ch_tbl) = 2 /\ ch_tbl[1] # ch_tbl[2]
    /\ ListIsTable(channel_list, ch_tbl)

\* the stored channel count changed in this step
CountChanged ==
    \/ "number_of_channels" \in attrs' \ attrs
    \/ number_of_channels' # number_of_channels

\* C5: a GPR event changes the stored number_of_channels only when its value
\* lies strictly between 0 and 64; it then becomes that value and the channel
\* list and all cursors are unchanged.
C5_CountStoredOnlyInsideOpenRange ==
    [][IsGPREvent(evt')
       => /\ CountChanged => (0 < evt'.val /\ evt'.val < CHANNEL_COUNT_LIMIT)
          /\ (0 < evt'.val /\ evt'.val < CHANNEL_COUNT_LIMIT)
             => /\ number_of_channels' = evt'.val
                /\ "number_of_channels" \in attrs'
                /\ UNCHANGED channel_list]_vars

\* the places of the channels of list whose doorbell bit is set in value
DoorbellBitSet(list, value) ==
    {i \in DOMAIN list : (value \div (2 ^ list[i].source)) % 2 = 1}

\* the places of the channels of list whose doorbell mask equals value
DoorbellEqual(list, value) ==
    {i \in DOMAIN list : 2 ^ list[i].source = value}

\* the places a handler run visited, and those whose get_message returned
Scanned(run) == {run[k] : k \in DOMAIN run}
Polled(run_polls) == {run_polls[k].channel : k \in DOMAIN run_polls}

\* the polls of a run that returned a Message, in order
NewMessages(run_polls) == SelectSeq(run_polls, LAMBDA p : p.message # None)

\* every new Message of the run was decoded and dumped, in order
AllEmitted(run_polls, run_emitted) ==
    /\ Len(run_emitted) = Len(NewMessages(run_polls))
    /\ \A k \in DOMAIN run_emitted :
         /\ run_emitted[k].channel = NewMessages(run_polls)[k].channel
         /\ run_emitted[k].command.index = NewMessages(run_polls)[k].message[1]
         /\ run_emitted[k].command.raw_value = NewMessages(run_polls)[k].message[2][1]

\* the seq is strictly increasing: the places were visited in list order
InListOrder(run) == \A j, k \in DOMAIN run : j < k => run[j] < run[k]

\* C6 as stated: a doorbell write of value v polls, in the Write direction,
\* the channels whose doorbell bit (1 << source) is set in v and no other;
\* when no read faults, it polls all of them and emits every new Message.
C6_DoorbellPollsBitSetChannels ==
    [][(evt'.kind = "doorbell" /\ "channel_list" \in attrs)
       => /\ Scanned(scanned') \subseteq DoorbellBitSet(channel_list, evt'.val)
          /\ ~fault' => /\ Scanned(scanned') = DoorbellBitSet(channel_list, evt'.val)
                        /\ AllEmitted(polls', emitted')]_vars

\* C6 amended: a doorbell write of value v polls, in the Write direction and
\* in list order, channels whose doorbell mask (1 << source) equals v and no
\* other. When no translated read faults it polls every such channel once and
\* every new Message obtained is decoded and emitted; a faulting read ends the
\* handler at that channel, and then nothing is emitted.
C6_DoorbellPollsEqualMaskChannels ==
    [][(evt'.kind = "doorbell" /\ "channel_list" \in attrs)
       => /\ Scanned(scanned') \subseteq DoorbellEqual(channel_list, evt'.val)
          /\ InListOrder(scanned')
          /\ Polled(polls') \subseteq Scanned(scanned')
          /\ \A k \in DOMAIN polls' : polls'[k].lookup_type = LAST_WRITE
          /\ \A i \in DOMAIN channel_list :
                i \notin Scanned(scanned') => channel_list'[i] = channel_list[i]
          /\ IF fault'
             THEN /\ emitted' = <<>>
                  /\ scanned' # <<>>
                  /\ \A i \in DoorbellEqual(channel_list, evt'.val) :
                        i <= scanned'[Len(scanned')] => i \in Scanned(scanned')
             ELSE /\ Scanned(scanned') = DoorbellEqual(channel_list, evt'.val)
                  /\ Polled(polls') = Scanned(scanned')
                  /\ \A i \in Polled(polls') : PollCount(polls', i) = 1
                  /\ AllEmitted(polls', emitted')]_vars

\* a doorbell write of value 2 on a list of two channels has polled the one
\* whose mask is 2, not the other, and has emitted its new Message
C6_Witness ==
    /\ evt.kind = "doorbell" /\ evt.val = 2 /\ ~fault
    /\ Len(channel_list) = 2
    /\ channel_list[1].doorbell = 1 /\ channel_list[2].doorbell = 2
    /\ scanned = <<2>>
    /\ Len(emitted) = 1 /\ emitted[1].channel = 2
    /\ channel_list[2].write_entry_index = 0 /\ channel_list[2].last_write_entry # None
    /\ channel_list[1].last_write_entry = None

\* the places of the channels of list whose type bit is set in the mask
TypeBitSet(list, mask) ==
    {i \in DOMAIN list : (mask \div (2 ^ (list[i].type % 2))) % 2 = 1}

\* C7: an interrupt-pending read with mask m polls, in the Read direction,
\* the channels whose type bit is set in m and no other; when no read faults,
\* it polls all of them and emits every new Message.
C7_IrqPollsTypeBitChannels ==
    [][(evt'.kind = "irq" /\ "channel_list" \in attrs)
       => /\ Scanned(scanned') \subseteq TypeBitSet(channel_list, evt'.val)
          /\ ~fault' => /\ Scanned(scanned') = TypeBitSet(channel_list, evt'.val)
                        /\ AllEmitted(polls', emitted')]_vars

---------------------------------------------------------------------------
(* Properties of the content dedup over several polls *)

\* C8: over polls during which the ring memory of a channel is not modified,
\* no ring entry (same slot, same bytes) is returned as a Message more than
\* once in one direction: a Message is never returned for a slot that was
\* already returned since the device last wrote the ring.
C8_NoEntryEmittedTwice ==
    [][\A k \in DOMAIN polls' :
         polls'[k].message # None
         => polls'[k].message[1] \notin seen[polls'[k].channel][polls'[k].lookup_type]]_vars

\* C9: an entry that the device writes into the slot at the current cursor is
\* returned as a Message by the next poll of that direction, whatever its
\* bytes: a poll that directly follows a device write to its cursor slot
\* returns the Message of that slot.
C9_WrittenEntryIsEmitted ==
    [][(evt.kind = "devwrite" /\ IsPollEvent(evt'))
       => \A k \in DOMAIN polls' :
            LET ch == channel_list[polls'[k].channel]
                d == polls'[k].lookup_type
            IN (/\ ch.address = evt.addr
                /\ entry_index_of(ch, d) = evt.slot
                /\ SlotExists(ch, d))
               => polls'[k].message = <<evt.slot, SlotEntry(ch, d)>>]_vars

\* the slot whose entry a direction of a channel returned last: the one
\* before the cursor; meaningful when the direction has a last-seen buffer
LastEmittedSlot(ch, d) ==
    (entry_index_of(ch, d) + ch.number_of_entries - 1) % ch.number_of_entries

\* slot k of the ring of ch was polled in direction d and the device has just
\* rewritten it with the bytes that were polled
RewrittenIdentically(ch, d, e) ==
    /\ e.kind = "devwrite"
    /\ ch.number_of_entries >= 1
    /\ ch.address = e.addr
    /\ last_entry_of(ch, d) # None
    /\ LastEmittedSlot(ch, d) = e.slot
    /\ mem[ch.address][e.slot + 1] = last_entry_of(ch, d)

\* C10 as stated: after entry[k] has been written and polled, if slot k is
\* rewritten with identical bytes, the following poll of that direction
\* yields no Message.
C10_RewriteYieldsNoMessage ==
    [][IsPollEvent(evt')
       => \A k \in DOMAIN polls' :
            RewrittenIdentically(channel_list[polls'[k].channel],
                                 polls'[k].lookup_type, evt)
            => polls'[k].message = None]_vars

\* C10 amended: after entry[k] has been written and polled, if slot k is
\* rewritten with identical bytes, the following poll of that direction
\* yields no Message for slot k: it examines slot (k+1) mod entry_count, so
\* it yields no Message at all when entry_count is 1 or when that slot holds
\* the same bytes, and otherwise the Message of that next slot.
C10_RewriteYieldsNoMessageForSlot ==
    [][IsPollEvent(evt')
       => \A k \in DOMAIN polls' :
            LET ch == channel_list[polls'[k].channel]
                d == polls'[k].lookup_type
                next_slot == (evt.slot + 1) % ch.number_of_entries
            IN RewrittenIdentically(ch, d, evt)
               => IF mem[ch.address][next_slot + 1] = last_entry_of(ch, d)
                  THEN polls'[k].message = None
                  ELSE /\ polls'[k].message = <<next_slot, mem[ch.address][next_slot + 1]>>
                       /\ next_slot # evt.slot]_vars

\* a poll of a one-entry ring has returned nothing right after the device
\* rewrote the slot with the bytes the direction had already returned
C10_Witness ==
    /\ IsPollEvent(evt) /\ evt.addr # 0
    /\ \E k \in DOMAIN polls :
         LET ch == channel_list[polls[k].channel]
             d == polls[k].lookup_type
         IN /\ ch.address = evt.addr
            /\ ch.number_of_entries = 1
            /\ evt.slot = 0
            /\ last_entry_of(ch, d) = mem[ch.address][1]
            /\ polls[k].message = None

---------------------------------------------------------------------------
(* The end-to-end scenario: count, table, doorbell *)

\* the channel tables of the scenario: seven records, one of them a TERMINAL
\* record of four entries, the others zero bytes
E2ETables ==
    { tbl \in [1..7 -> TerminalRecords \cup {ZeroRecord}] :
        Cardinality({i \in DOMAIN tbl : tbl[i] \in TerminalRecords}) = 1 }

\* the ring entry of the scenario: value 0x5000, arg0 16
E2EEntry == <<TEXT_BUFFER, 16, 0>>

\* a tracer right after construction; the ring of four slots holds what the
\* device left there
InitE2E ==
    /\ attrs = {}
    /\ number_of_channels = 0
    /\ channel_list = <<>>
    /\ ch_tbl = <<>>
    /\ BUFFER_ADDRESS = NoAddress
    /\ \E first \in RingEntries \cup {E2EEntry} : \E rest \in RingEntries :
          mem = [a \in DOMAIN RingSlots |->
                   IF a = RING_A
                   THEN [k \in 1..4 |-> IF k = 1 THEN first ELSE rest]
                   ELSE <<rest>>]
    /\ evt = Event("start", 0, 0, 0)
    /\ scanned = <<>> /\ polls = <<>> /\ emitted = <<>> /\ fault = FALSE
    /\ seen = <<>>
    /\ events = 0
    /\ allowed = ALLOWED_CHANNELS
    /\ MDARTStart

\* what a discovery of the scenario reads at val
E2ETablesAt(val) ==
    IF /\ ~is_channel_count(val) /\ val # ACK_VALUE
       /\ "number_of_channels" \in attrs
       /\ number_of_channels = 7
       /\ ~table_read_faults(val, number_of_channels * CHANNEL_TABLE_ENTRY_LENGTH)
    THEN E2ETables
    ELSE {<<>>}

NextE2E ==
    \/ \E val \in {7, TABLE_IOVA} : \E tbl \in E2ETablesAt(val) : r_ISP_GPR0(val, tbl)
    \/ \E val \in DoorbellValues : w_ISP_DOORBELL_RING0(val)

SpecE2E == InitE2E /\ [][NextE2E]_vars

\* the state after "GPR value 7, then GPR value 0x1000": the count 7 is
\* stored, the last event parsed a table of the scenario at the table IOVA,
\* and slot 0 of the TERMINAL ring holds the entry of the scenario
E2EDiscovered ==
    /\ evt.kind = "gpr" /\ evt.val = TABLE_IOVA /\ ~fault
    /\ number_of_channels = 7
    /\ ch_tbl \in E2ETables
    /\ mem[RING_A][1] = E2EEntry

\* the place of the TERMINAL channel in the list
TerminalPlace == CHOOSE i \in DOMAIN ch_tbl : ch_tbl[i] \in TerminalRecords

\* exactly one command was emitted, a Terminal command of the TERMINAL channel
\* for slot 0, with address 0x5000 and the 16 bytes read at 0x5000
E2EOneTerminal(run_emitted, place) ==
    /\ Len(run_emitted) = 1
    /\ run_emitted[1].channel = place
    /\ run_emitted[1].command.kind = "Terminal"
    /\ run_emitted[1].command.index = 0
    /\ run_emitted[1].command.value = TEXT_BUFFER
    /\ run_emitted[1].command.arg0 = 16
    /\ run_emitted[1].command.read_at = TEXT_BUFFER

\* C11 as stated: after GPR value 7 and GPR value 0x1000 (a table with one
\* TERMINAL record, base 0x2000, four entries), a doorbell write with the
\* TERMINAL channel's doorbell bit set, slot 0 holding value 0x5000 and arg0
\* 16, emits exactly one command: a Terminal command with buffer address
\* 0x5000 whose text is the 16 bytes read at 0x5000.
C11_DoorbellBitEmitsTerminal ==
    [][(/\ E2EDiscovered
        /\ evt'.kind = "doorbell"
        /\ TerminalPlace \in DoorbellBitSet(channel_list, evt'.val))
       => E2EOneTerminal(emitted', TerminalPlace)]_vars

\* C11, amended: the same when the doorbell value equals the doorbell mask
\* (1 << source) of the TERMINAL channel.
C11_DoorbellMaskEmitsTerminal ==
    [][(/\ E2EDiscovered
        /\ evt'.kind = "doorbell"
        /\ TerminalPlace \in DoorbellEqual(channel_list, evt'.val))
       => E2EOneTerminal(emitted', TerminalPlace)]_vars

\* the scenario ran to its end: the doorbell write that follows the discovery
\* emitted the Terminal command and the remembered address moved past it
C11_Witness ==
    /\ evt.kind = "doorbell"
    /\ events = 3
    /\ number_of_channels = 7
    /\ ch_tbl \in E2ETables
    /\ evt.val = channel_list[TerminalPlace].doorbell
    /\ E2EOneTerminal(emitted, TerminalPlace)
    /\ BUFFER_ADDRESS = TEXT_BUFFER + MAX_BUFFER_SIZE

---------------------------------------------------------------------------
(* Properties of the handlers when a translated read faults *)

\* the lookup type of the handler that an event runs
LookupTypeOf(e) == IF e.kind = "irq" THEN LAST_READ ELSE LAST_WRITE

\* the decoding of the first Message of the next handler run: it starts from
\* the remembered terminal address of the current state
FirstDecode ==
    get_command(channel_list[polls'[1].channel].name, polls'[1].message, BUFFER_ADDRESS)

\* the next handler run obtained a Message first thing, and the follow-up read
\* of its command, at a real address, faulted
FirstFollowUpFaults ==
    /\ IsPollEvent(evt')
    /\ polls' # <<>>
    /\ polls'[1].message # None
    /\ FirstDecode.fault
    /\ FirstDecode.command.read_at # NoAddress

\* C12: when the follow-up read of a command variant faults, decoding is not
\* aborted: the command is still returned (and so emitted) with value, arg0
\* and arg1 of the message, and the fault is reported.
C12_FollowUpFaultKeepsCommand ==
    [][FirstFollowUpFaults
       => /\ emitted' # <<>>
          /\ emitted'[1].channel = polls'[1].channel
          /\ emitted'[1].command.kind = FirstDecode.command.kind
          /\ emitted'[1].command.value = masked_value(polls'[1].message[2][1])
          /\ emitted'[1].command.arg0 = polls'[1].message[2][2]
          /\ emitted'[1].command.arg1 = polls'[1].message[2][3]
          /\ fault']_vars

\* the places of the channels of list that a handler run for value must poll
Matching(list, lookup_type, value) ==
    {i \in DOMAIN list : channel_matches(list[i], lookup_type, value)}

\* the ring read of the last channel a handler run visited faulted: the run
\* raised before the get_message call of that channel
RingReadFaulted(run_scanned, run_polls, run_fault) ==
    run_fault /\ Len(run_scanned) > Len(run_polls)

\* C13: within one interrupt-read or doorbell-write event, a translation
\* fault (here: of a ring read) does not keep the remaining matching channels
\* from being polled, nor the commands already obtained in the event from
\* being emitted.
C13_FaultAbortsOnlyItsRead ==
    [][(/\ IsPollEvent(evt') /\ "channel_list" \in attrs
        /\ RingReadFaulted(scanned', polls', fault'))
       => /\ Scanned(scanned') = Matching(channel_list, LookupTypeOf(evt'), evt'.val)
          /\ AllEmitted(polls', emitted')]_vars

\* the last event was a discovery whose table read faulted: the count was
\* stored, is not 0, and nothing is mapped at the table IOVA
TableReadFaulted ==
    /\ evt.kind = "gpr" /\ fault
    /\ "number_of_channels" \in attrs
    /\ table_read_faults(evt.val, number_of_channels * CHANNEL_TABLE_ENTRY_LENGTH)

\* C14: if the table read faults during discovery, the channel list is empty
\* afterwards; and every interrupt-read or doorbell-write event that finds the
\* list empty is processed without error, polls no channel, emits nothing and
\* leaves the list empty.
C14_FaultedDiscoveryLeavesNoChannel ==
    [][/\ TableReadFaulted' => ("channel_list" \in attrs' /\ channel_list' = <<>>)
       /\ (/\ "channel_list" \in attrs /\ channel_list = <<>>
           /\ IsPollEvent(evt'))
          => (/\ ~fault'
              /\ scanned' = <<>> /\ polls' = <<>> /\ emitted' = <<>>
              /\ channel_list' = <<>>)]_vars

\* a discovery faulted on its table read after a TERMINAL channel of an
\* earlier list had been polled and decoded, and the list is now empty
C14_Witness ==
    /\ TableReadFaulted
    /\ BUFFER_ADDRESS # NoAddress
    /\ channel_list = <<>>

---------------------------------------------------------------------------
(* Properties of discovery: the count threshold and the allow-list *)

\* the last event was a discovery that issued its table read: the value is no
\* count and not the ACK, and the count had been stored
TableReadIssued ==
    /\ evt.kind = "gpr"
    /\ ~is_channel_count(evt.val) /\ evt.val # ACK_VALUE
    /\ "number_of_channels" \in attrs

AllowLists ==
    { ALLOWED_CHANNELS,
      [none |-> FALSE, names |-> <<>>],
      [none |-> FALSE, names |-> <<NAME_TERMINAL>>],
      [none |-> FALSE, names |-> <<NAME_IO, NAME_BUF_T2H>>],
      [none |-> FALSE, names |-> <<NAME_SHAREDMALLOC>>] }

\* a tracer right after construction, with any of the allow-lists
InitAllow ==
    /\ attrs = {}
    /\ number_of_channels = 0
    /\ channel_list = <<>>
    /\ ch_tbl = <<>>
    /\ BUFFER_ADDRESS = NoAddress
    /\ mem = [a \in DOMAIN RingSlots |-> [k \in 1..RingSlots[a] |-> <<0, 16, 0>>]]
    /\ evt = Event("start", 0, 0, 0)
    /\ scanned = <<>> /\ polls = <<>> /\ emitted = <<>> /\ fault = FALSE
    /\ seen = <<>>
    /\ events = 0
    /\ allowed \in AllowLists
    /\ MDARTStart

\* the GPR0 reads: counts and discoveries
NextAllow ==
    \E val \in GPRValues : \E tbl \in TablesAt(val) : r_ISP_GPR0(val, tbl)

SpecAllow == InitAllow /\ [][NextAllow]_vars

\* the places of the records of tbl whose name, without its NUL padding, is
\* one of names, in table order
KeptPlaces(tbl, names) ==
    SelectSeq([i \in 1..Len(tbl) |-> i],
              LAMBDA i : \E k \in DOMAIN names :
                            Pad(names[k]) = TableRecords[tbl[i]].name)

\* list is the channels of the records of tbl at places, in order, each with
\* the source and the doorbell mask (1 << source) of its record
ListIsRecordsAt(list, tbl, places) ==
    /\ Len(list) = Len(places)
    /\ \A k \in DOMAIN places :
         /\ FreshChannelOf(list[k], TableRecords[tbl[places[k]]])
         /\ list[k].doorbell = 2 ^ TableRecords[tbl[places[k]]].source

\* the last event was a discovery that read its table
TableParsed == TableReadIssued /\ ~fault

\* C16 as stated: with an allow-list configured (any list, the empty one
\* included), the channel list after a discovery is exactly the subsequence,
\* in table order, of the records whose name is in the allow-list, each with
\* the source and doorbell mask of its record.
C16_ListIsAllowedSubsequence ==
    [][(TableParsed' /\ ~allowed.none)
       => ListIsRecordsAt(channel_list', ch_tbl', KeptPlaces(ch_tbl', allowed.names))]_vars

\* C16, amended: the same for a non-empty allow-list.
C16_ListIsAllowedSubsequenceNonEmpty ==
    [][(TableParsed' /\ ~allowed.none /\ allowed.names # <<>>)
       => ListIsRecordsAt(channel_list', ch_tbl', KeptPlaces(ch_tbl', allowed.names))]_vars

\* a discovery under an allow-list dropped the first record of a table of
\* two and kept the second
C16_Witness ==
    /\ TableParsed
    /\ ~allowed.none /\ allowed.names # <<>>
    /\ Len(ch_tbl) = 2
    /\ KeptPlaces(ch_tbl, allowed.names) = <<2>>
    /\ Len(channel_list) = 1
    /\ FreshChannelOf(channel_list[1], TableRecords[ch_tbl[2]])

---------------------------------------------------------------------------
(* The value field at its full width: 8 bytes on the wire, little endian *)

\* ISPCommand.__init__: the mask 0xFFFFFFFFFFFFFFFC, as 8 bytes, low byte first
VALUE_MASK == <<252, 255, 255, 255, 255, 255, 255, 255>>

RECURSIVE and_bits(_, _, _)
\* the bitwise and of the low n bits of a and b
and_bits(a, b, n) ==
    IF n = 0 THEN 0
    ELSE (a % 2) * (b % 2) + 2 * and_bits(a \div 2, b \div 2, n - 1)

\* the two's complement of a 64-bit pattern: every byte inverted, plus one
negate64(bytes) ==
    LET inv == [i \in 1..8 |-> 255 - bytes[i]]
        open == {i \in 1..8 : inv[i] # 255}
        stop == IF open = {} THEN 9 ELSE CHOOSE i \in open : \A j \in open : i <= j
    IN [i \in 1..8 |-> IF i < stop THEN 0
                       ELSE IF i = stop THEN inv[i] + 1
                       ELSE inv[i]]

\* struct.unpack('<q', ...): the Python int of 8 bytes, as sign and magnitude
unpack_q(bytes) ==
    IF bytes[8] >= 128
    THEN [neg |-> TRUE, mag |-> negate64(bytes)]
    ELSE [neg |-> FALSE, mag |-> bytes]

\* Python's & taking the magnitude of a negative int for its bit pattern: the
\* slip that C17 must detect
py_and_magnitude(x, mask) ==
    [i \in 1..8 |-> and_bits(x.mag[i], mask[i], 8)]

\* Python's x & mask for a mask in 0 .. 2^64-1: the and of the two's
\* complement pattern of x with the mask, a non-negative int (8 bytes)
py_and(x, mask) ==
    LET pattern == IF x.neg THEN negate64(x.mag) ELSE x.mag
    IN [i \in 1..8 |-> and_bits(pattern[i], mask[i], 8)]

\* ISPCommand.__init__ on the wire bytes of an entry, for the class kind
Command64(kind, message) ==
    [ kind      |-> kind,
      index     |-> message[1],
      raw_value |-> unpack_q(message[2][1]),
      value     |-> py_and(unpack_q(message[2][1]), VALUE_MASK),
      arg0      |-> message[2][2],
      arg1      |-> message[2][3] ]

\* ISPChannelMessage.get_command on the wire bytes: every variant starts
\* with ISPCommand.__init__ and none of them assigns value again
get_command64(name, message) ==
    IF name = NAME_TERMINAL THEN Command64("Terminal", message)
    ELSE IF name = NAME_IO THEN Command64("IO", message)
    ELSE IF name = NAME_SHAREDMALLOC THEN Command64("SharedMalloc", message)
    ELSE IF name = NAME_BUF_T2H THEN Command64("T2HBuffer", message)
    ELSE Command64("Generic", message)

\* the channel names of the five variants ("" is a name the decoder does not
\* know)
VariantNames == {NAME_TERMINAL, NAME_IO, NAME_SHAREDMALLOC, NAME_BUF_T2H, <<>>}

\* the value fields on the wire: the low byte covers every pattern of the two
\* masked bits, the high byte both signs, the six bytes between are all 0x00,
\* all 0x55 or all 0xFF
WireValues ==
    { [i \in 1..8 |-> IF i = 1 THEN lo ELSE IF i = 8 THEN hi ELSE mid] :
        lo \in {0, 1, 2, 3, 4, 127, 252, 253, 254, 255},
        mid \in {0, 85, 255},
        hi \in {0, 1, 127, 128, 255} }

\* a Message was obtained from a ring: its value field is any wire value
InitMask ==
    /\ attrs = {}
    /\ number_of_channels = 0
    /\ channel_list = <<>>
    /\ ch_tbl = <<>>
    /\ BUFFER_ADDRESS = NoAddress
    /\ mem = [a \in DOMAIN RingSlots |-> <<>>]
    /\ evt = Event("start", <<>>, 0, 0)
    /\ scanned = <<>> /\ emitted = <<>> /\ fault = FALSE
    /\ \E v \in WireValues :
          polls = <<[channel |-> 1, lookup_type |-> LAST_READ,
                     message |-> <<0, <<v, 16, 0>>>>]>>
    /\ seen = <<>>
    /\ events = 0
    /\ allowed = ALLOWED_CHANNELS
    /\ MDARTStart

\* the Message is decoded as an entry of the channel called name
decode_message(name) ==
    /\ evt' = Event("decode", name, 0, 0)
    /\ emitted' = <<[channel |-> 1, command |-> get_command64(name, polls[1].message)]>>
    /\ UNCHANGED <<attrs, number_of_channels, channel_list, ch_tbl, BUFFER_ADDRESS,
                   mem, scanned, polls, fault, seen, events, allowed, cached, mdart>>

NextMask == \E name \in VariantNames : decode_message(name)

SpecMask == InitMask /\ [][NextMask]_vars

\* the wire value with the two low bits cleared
LowBitsCleared(bytes) == [bytes EXCEPT ![1] = @ - (@ % 4)]

\* the number that a non-negative value below 2^24 stands for
SmallNumber(bytes) == bytes[1] + 256 * bytes[2] + 65536 * bytes[3]
IsSmall(bytes) == \A i \in 4..8 : bytes[i] = 0

---------------------------------------------------------------------------
(* The remembered address of the Terminal decoder *)

\* the entries of a TERMINAL ring: value 0 with and without text, the chunk
\* below the text buffer (with low bits set), the text buffer and an address
\* that is not mapped, these two with and without text
TerminalEntries ==
    { <<0, 0, 0>>, <<0, 16, 0>>,
      <<TEXT_BUFFER - MAX_BUFFER_SIZE + 1, 16, 0>>,
      <<TEXT_BUFFER, 16, 0>>, <<TEXT_BUFFER + 3, 0, 0>>,
      <<RING_UNMAPPED, 16, 0>>, <<RING_UNMAPPED, 0, 0>> }

\* no Terminal message was decoded yet
InitTerminal ==
    /\ attrs = {}
    /\ number_of_channels = 0
    /\ channel_list = <<>>
    /\ ch_tbl = <<>>
    /\ BUFFER_ADDRESS = NoAddress
    /\ mem = [a \in DOMAIN RingSlots |-> <<>>]
    /\ evt = Event("start", 0, 0, 0)
    /\ scanned = <<>> /\ polls = <<>> /\ emitted = <<>> /\ fault = FALSE
    /\ seen = <<>>
    /\ events = 0
    /\ allowed = ALLOWED_CHANNELS
    /\ MDARTStart

\* a Message with entry e, from slot k of a TERMINAL ring, is decoded
decode_terminal(k, e) ==
    LET message == <<k, e>>
        c == get_command(NAME_TERMINAL, message, BUFFER_ADDRESS)
    IN /\ Deliver
       /\ evt' = Event("terminal", 0, 0, 0)
       /\ polls' = <<[channel |-> 1, lookup_type |-> LAST_READ, message |-> message]>>
       /\ BUFFER_ADDRESS' = c.BUFFER_ADDRESS
       /\ fault' = c.fault
       /\ emitted' = IF c.fault THEN <<>> ELSE <<[channel |-> 1, command |-> c.command]>>
       /\ UNCHANGED <<attrs, number_of_channels, channel_list, ch_tbl, mem, scanned,
                      seen, allowed, cached, mdart>>

NextTerminal == \E k \in 0..1 : \E e \in TerminalEntries : decode_terminal(k, e)

SpecTerminal == InitTerminal /\ [][NextTerminal]_vars

\* what a Terminal message does to the remembered address, given that one
\* exists whenever the value of the message is zero (remembered tells whether
\* the claim covers the step): a nonzero masked value A is stored even when
\* the read at A faults; a decoded message read its text at A, or at the
\* remembered address when the value is zero, and left the remembered address
\* 128 bytes past the address it read at
RemembersAndAdvances(remembered) ==
    LET A == masked_value(polls'[1].message[2][1])
    IN /\ (A # 0 /\ fault') => BUFFER_ADDRESS' = A
       /\ (A # 0 /\ ~fault')
          => /\ emitted'[1].command.read_at = A
             /\ BUFFER_ADDRESS' = A + MAX_BUFFER_SIZE
       /\ (A = 0 /\ fault' /\ remembered) => BUFFER_ADDRESS' = BUFFER_ADDRESS
       /\ (A = 0 /\ ~fault' /\ remembered)
          => /\ emitted'[1].command.read_at = BUFFER_ADDRESS
             /\ BUFFER_ADDRESS # 0 /\ BUFFER_ADDRESS # NoAddress
             /\ BUFFER_ADDRESS' = BUFFER_ADDRESS + MAX_BUFFER_SIZE

\* C18 as stated: every Terminal message with a nonzero masked value A sets
\* the remembered address to A and reads at A; every one with value zero reads
\* at the remembered address and does not reset it; and every decoded
\* Terminal message advances the remembered address by exactly 128.
C18_EveryMessageAdvances ==
    [][evt'.kind = "terminal" => RemembersAndAdvances(TRUE)]_vars

\* C18, amended: the same once an address is remembered; a message of value
\* zero that arrives before any address was remembered leaves none remembered.
C18_AdvancesOnceRemembered ==
    [][evt'.kind = "terminal"
       => /\ RemembersAndAdvances(BUFFER_ADDRESS # NoAddress)
          /\ (masked_value(polls'[1].message[2][1]) = 0 /\ BUFFER_ADDRESS = NoAddress)
             => BUFFER_ADDRESS' = NoAddress]_vars

\* a message of value zero was decoded with its text read at the remembered
\* address 0x5000, which then moved to 0x5080
C18_Witness ==
    /\ evt.kind = "terminal" /\ ~fault
    /\ emitted[1].command.value = 0
    /\ emitted[1].command.arg0 = 16
    /\ emitted[1].command.read_at = TEXT_BUFFER
    /\ BUFFER_ADDRESS = TEXT_BUFFER + MAX_BUFFER_SIZE

---------------------------------------------------------------------------
(* MDARTTracer: the stream-command handler and the multi-instance read *)

\* DART.invalidate_cache and DART.ioread, as to the cache of the unit: the
\* first drops it, a read that succeeds leaves translations cached
invalidate_cache(unit_cached) == FALSE
dart_ioread(unit_cached, faults) == unit_cached \/ ~faults

\* matching_units taking the first unit whatever the address: the slip that
\* C19 must detect
matching_units_first(u, addr) == {u}

RECURSIVE matching_units(_, _)
\* the loop of w_STREAM_COMMAND from unit u on: the first unit whose regmap
\* knows the address is the one invalidated, and the loop returns
matching_units(u, addr) ==
    IF u > Len(NAMES) THEN {}
    ELSE IF lookup_addr(u, addr) # "None" THEN {u}
    ELSE matching_units(u + 1, addr)

\* MDARTTracer.w_STREAM_COMMAND(evt, stream_command)
w_STREAM_COMMAND(addr, INVALIDATE) ==
    LET invalidated == IF INVALIDATE THEN matching_units(1, addr) ELSE {}
    IN /\ cached' = [u \in DOMAIN NAMES |->
                       IF u \in invalidated THEN invalidate_cache(cached[u])
                       ELSE cached[u]]
       /\ mdart' = MDARTCall("w_STREAM_COMMAND", addr, INVALIDATE, 0, 0, NoIndex,
                             invalidated, <<>>, "None")
       /\ UNCHANGED <<attrs, number_of_channels, channel_list, ch_tbl, BUFFER_ADDRESS,
                      mem, evt, scanned, polls, emitted, fault, seen, events, allowed>>

\* has_index testing the index for truth ("if idx:"): the slip that C20 must
\* detect
has_index_truthy(idx) == idx # NoIndex /\ idx # 0

\* ioread: "if idx is not None"
has_index(idx) == idx # NoIndex

\* the units a read without index goes to, in order: self.regs[0], [1], [2]
BroadcastUnits == <<1, 2, 3>>

RECURSIVE read_units(_, _, _)
\* the reads of units[k], units[k+1], ... in turn; the exception of a read
\* that faults ends the call
read_units(units, k, base) ==
    IF k > Len(units) THEN <<>>
    ELSE IF unit_read_faults(units[k], base) THEN <<units[k]>>
    ELSE <<units[k]>> \o read_units(units, k + 1, base)

\* MDARTTracer.ioread(stream, base, size, idx): the units read and what the
\* call ends with (b"", None from falling off the end, or the exception)
ioread(base, size, idx) ==
    LET queried == IF size = 0 THEN <<>>
                   ELSE IF has_index(idx) THEN read_units(<<idx + 1>>, 1, base)
                   ELSE read_units(BroadcastUnits, 1, base)
        asked == {queried[k] : k \in DOMAIN queried}
        raised == \E u \in asked : unit_read_faults(u, base)
    IN /\ cached' = [u \in DOMAIN NAMES |->
                       IF u \in asked
                       THEN dart_ioread(cached[u], unit_read_faults(u, base))
                       ELSE cached[u]]
       /\ mdart' = MDARTCall("ioread", 0, FALSE, base, size, idx, {}, queried,
                             IF size = 0 THEN "b''"
                             ELSE IF raised THEN "raise" ELSE "None")
       /\ UNCHANGED <<attrs, number_of_channels, channel_list, ch_tbl, BUFFER_ADDRESS,
                      mem, evt, scanned, polls, emitted, fault, seen, events, allowed>>

\* a tracer and its six units right after start
InitMDART ==
    /\ attrs = {}
    /\ number_of_channels = 0
    /\ channel_list = <<>>
    /\ ch_tbl = <<>>
    /\ BUFFER_ADDRESS = NoAddress
    /\ mem = [a \in DOMAIN RingSlots |-> <<>>]
    /\ evt = Event("start", 0, 0, 0)
    /\ scanned = <<>> /\ polls = <<>> /\ emitted = <<>> /\ fault = FALSE
    /\ seen = <<>>
    /\ events = 0
    /\ allowed = ALLOWED_CHANNELS
    /\ MDARTStart

\* writes to the STREAM_COMMAND register of any unit, with and without the
\* invalidate bit; reads of size 0 and 16, with every index and with none
NextMDART ==
    \/ \E u \in DOMAIN NAMES : \E INVALIDATE \in BOOLEAN :
          w_STREAM_COMMAND(UnitBase(u) + UNIT.STREAM_COMMAND, INVALIDATE)
    \/ \E base \in {READ_BASES.everywhere, READ_BASES.not_dart1} :
       \E size \in {0, 16} :
       \E idx \in {NoIndex} \cup {u - 1 : u \in DOMAIN NAMES} :
          ioread(base, size, idx)

SpecMDART == InitMDART /\ [][NextMDART]_vars

\* addr lies in the register block of unit u
InUnitRange(u, addr) == UnitBase(u) <= addr /\ addr < UnitBase(u) + UNIT.stride

\* C19: a stream-command write with the invalidate bit set, at an address in
\* the register range of unit U, invalidates the cache of U and of no other
\* unit; a stream-command write without the invalidate bit changes no unit's
\* cache.
C19_InvalidateHitsOnlyTheUnitWritten ==
    [][mdart'.op = "w_STREAM_COMMAND"
       => IF mdart'.flag
          THEN \A u \in DOMAIN NAMES :
                 IF InUnitRange(u, mdart'.addr)
                 THEN u \in mdart'.invalidated /\ ~cached'[u]
                 ELSE u \notin mdart'.invalidated /\ cached'[u] = cached[u]
          ELSE mdart'.invalidated = {} /\ cached' = cached]_vars

\* the cache of smmu0 was invalidated by a write to its STREAM_COMMAND while
\* dart0, dart1 and dapf0 keep theirs
C19_Witness ==
    /\ mdart.op = "w_STREAM_COMMAND" /\ mdart.flag
    /\ mdart.invalidated = {4}
    /\ NAMES[4] = "smmu0"
    /\ ~cached[4]
    /\ cached[1] /\ cached[2] /\ cached[6]

\* the units a call read
Queried(call) == {call.queried[k] : k \in DOMAIN call.queried}

\* what C20 says of the reads of size 0 and of those with an index
EmptyAndIndexedReads ==
    /\ mdart'.size = 0 => (mdart'.ret = "b''" /\ mdart'.queried = <<>> /\ cached' = cached)
    /\ (mdart'.size # 0 /\ mdart'.idx # NoIndex) => mdart'.queried = <<mdart'.idx + 1>>

\* C20 as stated: a read of nonzero size with an index queries only that
\* instance; one with no index is broadcast to all six registered units; a
\* read of size 0 returns empty bytes and queries no instance.
C20_BroadcastReadsAllSix ==
    [][mdart'.op = "ioread"
       => /\ EmptyAndIndexedReads
          /\ (mdart'.size # 0 /\ mdart'.idx = NoIndex)
             => Queried(mdart') = DOMAIN NAMES]_vars

\* C20, amended: a read with no index goes to dart0, dart1 and dart2 in this
\* order and to no other unit, and ends at the first of them that faults.
C20_BroadcastReadsTheThreeDarts ==
    [][mdart'.op = "ioread"
       => /\ EmptyAndIndexedReads
          /\ (mdart'.size # 0 /\ mdart'.idx = NoIndex)
             => LET faulting == {k \in 1..3 : unit_read_faults(k, mdart'.base)}
                    last == IF faulting = {} THEN 3
                            ELSE CHOOSE k \in faulting : \A j \in faulting : k <= j
                IN /\ mdart'.queried = [k \in 1..last |-> k]
                   /\ \A k \in 1..last : NAMES[k] \in {"dart0", "dart1", "dart2"}
                   /\ mdart'.ret = IF faulting = {} THEN "None" ELSE "raise"]_vars

\* a read with no index went to dart0, dart1 and dart2, none faulting, while
\* smmu0 has nothing cached
C20_Witness ==
    /\ mdart.op = "ioread"
    /\ mdart.size # 0 /\ mdart.idx = NoIndex
    /\ mdart.queried = <<1, 2, 3>>
    /\ mdart.ret = "None"
    /\ cached[1] /\ cached[2] /\ cached[3] /\ ~cached[4]

---------------------------------------------------------------------------
(* Properties of one handler run over the channel list *)

\* how often place i occurs in the places a run visited
VisitCount(run_scanned, i) ==
    Cardinality({k \in DOMAIN run_scanned : run_scanned[k] = i})

\* how many commands a run emitted for the channel at place i
EmitCount(run_emitted, i) ==
    Cardinality({k \in DOMAIN run_emitted : run_emitted[k].channel = i})

\* the cursor of a direction stayed or moved one position on, wrapping
MovedAtMostOne(old, new, d) ==
    \/ entry_index_of(new, d) = entry_index_of(old, d)
    \/ /\ old.number_of_entries > 0
       /\ entry_index_of(new, d) = (entry_index_of(old, d) + 1) % old.number_of_entries

\* C21: one interrupt-read or doorbell-write event polls each matching channel
\* exactly once (and no other channel), emits at most one command per matching
\* channel and advances that channel's cursor of the event's direction by at
\* most one position.
C21_EachMatchingChannelPolledOnce ==
    [][(IsPollEvent(evt') /\ "channel_list" \in attrs)
       => \A i \in DOMAIN channel_list :
            IF i \in Matching(channel_list, LookupTypeOf(evt'), evt'.val)
            THEN /\ VisitCount(scanned', i) = 1
                 /\ PollCount(polls', i) <= 1
                 /\ EmitCount(emitted', i) <= 1
                 /\ MovedAtMostOne(channel_list[i], channel_list'[i], LookupTypeOf(evt'))
            ELSE /\ VisitCount(scanned', i) = 0
                 /\ channel_list'[i] = channel_list[i]]_vars

\* the fields of a channel that discovery sets
SameIdentity(old, new) ==
    /\ new.name = old.name /\ new.type = old.type /\ new.source = old.source
    /\ new.doorbell = old.doorbell
    /\ new.number_of_entries = old.number_of_entries
    /\ new.entry_size = old.entry_size /\ new.size = old.size
    /\ new.address = old.address

\* the cursor and the last-seen buffer of direction d are those of old
SameDirection(old, new, d) ==
    /\ entry_index_of(new, d) = entry_index_of(old, d)
    /\ last_entry_of(new, d) = last_entry_of(old, d)

\* C22: an interrupt-pending read (Read polls) changes no write cursor and no
\* write last-seen buffer, a doorbell write (Write polls) changes no read
\* cursor and no read last-seen buffer, and neither changes the number of
\* channels or any channel's name, type, source, entry count, entry size or
\* base address.
C22_DirectionsAreIndependent ==
    [][(IsPollEvent(evt') /\ "channel_list" \in attrs)
       => /\ Len(channel_list') = Len(channel_list)
          /\ \A i \in DOMAIN channel_list :
               /\ SameIdentity(channel_list[i], channel_list'[i])
               /\ evt'.kind = "irq"
                  => SameDirection(channel_list[i], channel_list'[i], LAST_WRITE)
               /\ evt'.kind = "doorbell"
                  => SameDirection(channel_list[i], channel_list'[i], LAST_READ)
          /\ \A k \in DOMAIN polls' : polls'[k].lookup_type = LookupTypeOf(evt')]_vars

\* an interrupt-pending read returned a Message of a channel whose write
\* direction had been polled before: the read cursor moved on, the write
\* cursor and the write last-seen buffer are where the doorbell left them
C22_Witness ==
    /\ evt.kind = "irq" /\ ~fault
    /\ \E i \in DOMAIN channel_list :
         /\ \E k \in DOMAIN polls : polls[k].channel = i /\ polls[k].message # None
         /\ channel_list[i].read_entry_index = 1
         /\ channel_list[i].last_read_entry # None
         /\ channel_list[i].write_entry_index = 1
         /\ channel_list[i].last_write_entry # None
         /\ channel_list[i].last_read_entry # channel_list[i].last_write_entry

\* C23: if the ring read of a channel faults at the start of a poll, the poll
\* returns no Message (none is recorded, no command is emitted for it) and
\* the channel is exactly as before the poll: both cursors, both last-seen
\* buffers.
C23_RingFaultLeavesChannelUnchanged ==
    [][(/\ IsPollEvent(evt') /\ "channel_list" \in attrs
        /\ RingReadFaulted(scanned', polls', fault'))
       => LET i == scanned'[Len(scanned')]
          IN /\ ring_read_faults(channel_list[i].address, channel_list[i].size)
             /\ i \notin Polled(polls')
             /\ EmitCount(emitted', i) = 0
             /\ SameDirection(channel_list[i], channel_list'[i], LAST_READ)
             /\ SameDirection(channel_list[i], channel_list'[i], LAST_WRITE)
             /\ channel_list'[i] = channel_list[i]]_vars

\* the ring read of the second matching channel faulted after the first one
\* had been polled and had returned a Message
C23_Witness ==
    /\ IsPollEvent(evt)
    /\ RingReadFaulted(scanned, polls, fault)
    /\ Len(scanned) = 2
    /\ polls[1].message # None
    /\ ring_read_faults(channel_list[scanned[2]].address, channel_list[scanned[2]].size)
    /\ channel_list[scanned[2]].read_entry_index = 0
    /\ channel_list[scanned[2]].last_read_entry = None

====
